---- MODULE Spec2Model ----
(***************************************************************************)
(* dnsbuster: the rate-limited concurrent DNS query scheduler of           *)
(* src/main.rs, as a state machine.                                        *)
(*                                                                         *)
(* Time is discrete: one second is TicksPerSec ticks of the monotonic      *)
(* clock, whose origin is the instant line 129 reads it.  Durations are    *)
(* integers (as Duration is an integer number of nanoseconds); the f64     *)
(* quotient of line 139 is modelled by exact integer division.             *)
(***************************************************************************)
EXTENDS Integers, Sequences, FiniteSets, TLC

\* ---------------------------------------------------------------- bounds
MaxLines == 3       \* longest input file, in lines
MaxQps == 3         \* largest --qps tried (0 included)
TicksPerSec == 2    \* clock ticks in Duration::from_secs(1)
MaxTime == 6        \* horizon of the clock under Spec

\* ------------------------------------------------------ program constants
SleepTicks == 1     \* sleep(Duration::from_millis(20)): one tick
USIZE_MAX == 2147483647   \* what `f64::INFINITY as usize` saturates to

Min(a, b) == IF a < b THEN a ELSE b

\* ----------------------------------------------------------------- input
BadLine == "<io error>"          \* a line whose read returned Err
\* the word list: line i of the input file holds WordAt(i)
WordAt(i) == IF i % 2 = 1 THEN "www" ELSE ""
\* a path File::open fails on, or a file of n lines and the result of reading
\* each of them: the line's word, or an error
NoFile == [opens |-> FALSE, lines |-> <<>>]
Files == {NoFile} \cup
         {[opens |-> TRUE,
           lines |-> [i \in 1..n |-> IF i \in bad THEN BadLine ELSE WordAt(i)]] :
             n \in 0..MaxLines, bad \in SUBSET (1..MaxLines)}
NsArgs == {"none", "1.1.1.1:53", "bogus"}

Pending == "Pending"
Timeout == "Timeout"
Resolved == "Resolved"
CantResolve == "CantResolve"
ResolveStatus == {Pending, Timeout, Resolved, CantResolve}
Terminal == {Timeout, Resolved, CantResolve}

\* what resolver.lookup_ip(..).await evaluates to
\* (Ok, or the kind of the ResolveError; the last two stand for every other kind)
Outcomes == {"Ok", "ErrTimeout", "ErrNoRecordsFound", "ErrProto", "ErrIo"}

VARIABLES
    pc,                        \* position of main
    file, ns, qps,             \* the input file's content, args.ns, args.qps
    pending_tasks,             \* VecDeque<ResolveTask>: the Task Queue
    futures,                   \* Vec of boxed resolve futures: the In-Flight Set
    completed,                 \* usize counter
    last_future_created,       \* Instant
    future_creation_interval,  \* Duration
    k_left,                    \* min(n_new_tasks, pending_tasks.len()) of line 146
    wake_at,                   \* deadline of the sleep of line 163
    now,                       \* the monotonic clock
    out,                       \* stdout: the result lines, in order
    notices,                   \* stderr: number of "Completed" lines
    lookups,                   \* per task, number of lookup_ip calls made
    response                   \* `response` (line 67) of the future select_all just yielded

vars == <<pc, file, ns, qps, pending_tasks, futures, completed,
          last_future_created, future_creation_interval, k_left, wake_at, now,
          out, notices, lookups, response>>

\* positions inside `loop { .. }` (lines 136-181)
LoopPcs == {"pace", "floor", "for", "select", "wait", "sleep", "sleeping", "check"}

\* ResolveTask::new (the id is the line's rank in the queue: identity only)
NewTask(i, label) == [id |-> i, subdomain |-> label, status |-> Pending]

\* .filter_map(|x| x.ok()): the lines read without error, in order
IsOk(line) == line # BadLine
FilterOk(ls) == SelectSeq(ls, IsOk)

\* read_subdomains, after a successful open
ReadLines(ls) ==
    LET ok == FilterOk(ls) IN [i \in 1..Len(ok) |-> NewTask(i, ok[i])]

\* Classify with the catch-all arm reporting a timeout
ClassifyOtherAsTimeout(r) ==
    CASE r = "Ok" -> Resolved
      [] r = "ErrTimeout" -> Timeout
      [] r = "ErrNoRecordsFound" -> CantResolve
      [] OTHER -> Timeout

\* the match of resolve (lines 68-93)
Classify(r) ==
    CASE r = "Ok" -> Resolved
      [] r = "ErrTimeout" -> Timeout
      [] r = "ErrNoRecordsFound" -> CantResolve
      [] OTHER -> CantResolve

\* resolve handing the task back as it received it
resolveUnchanged(task, r) == task

\* the ResolveTask a resolve future returns
resolve(task, r) ==
    [id |-> task.id, subdomain |-> task.subdomain, status |-> Classify(r)]

\* resolve(&resolver, task, &args.target).boxed(): the task moves into a
\* future that has not been polled yet
NewFuture(task) == [task |-> task, st |-> "created"]

\* select_all's result dropped: the completed future stays in the Vec
SwapRemoveNothing(s, i) == s

\* truncate instead of swap_remove: the futures after the completed one are lost
SwapRemoveTruncate(s, i) == SubSeq(s, 1, i - 1)

\* Vec::swap_remove, as select_all removes the completed future
SwapRemove(s, i) ==
    LET n == Len(s) IN
    [j \in 1..(n - 1) |-> IF j = i THEN s[n] ELSE s[j]]

\* Duration::from_secs(1) / qps (qps > 0): integer division of the ticks
Interval(q) == TicksPerSec \div q

\* ceil in the place of floor
AllowanceCeil(elapsed, interval) ==
    IF interval = 0 THEN USIZE_MAX ELSE (elapsed \div interval) + 1

\* lines 139-140: (elapsed / interval).floor() as usize
Allowance(elapsed, interval) ==
    IF interval = 0 THEN USIZE_MAX ELSE elapsed \div interval

\* last_future_created.elapsed()
Elapsed == now - last_future_created

\* the tasks of a burst taken in the order of the queue
PoppedInQueueOrder(q, k) == [j \in 1..k |-> q[Len(q) - k + j]]

\* pop_back, k times: what is left of the queue, and the tasks in pop order
PopBack(q, k) == SubSeq(q, 1, Len(q) - k)
Popped(q, k) == [j \in 1..k |-> q[Len(q) + 1 - j]]

\* a poll that leaves no trace: a future polled again calls lookup_ip again
PolledForgets(fs, j) == fs

\* one poll of select_all reaches future j: every future before it is
\* polled and, when that is its first poll, calls lookup_ip
Polled(fs, j) ==
    [i \in 1..Len(fs) |->
        IF i <= j /\ fs[i].st = "created" THEN [fs[i] EXCEPT !.st = "awaiting"]
        ELSE fs[i]]
Started(fs, j) == {fs[i].task.id : i \in {i \in 1..Min(j, Len(fs)) : fs[i].st = "created"}}

Init ==
    /\ pc = "start"
    /\ file \in Files
    /\ ns \in NsArgs
    /\ qps \in 0..MaxQps
    /\ pending_tasks = <<>>
    /\ futures = <<>>
    /\ completed = 0
    /\ last_future_created = 0
    /\ future_creation_interval = 0
    /\ k_left = 0
    /\ wake_at = 0
    /\ now = 0
    /\ out = <<>>
    /\ notices = 0
    /\ lookups = [i \in 1..MaxLines |-> 0]
    /\ response = "none"

\* line 113: read_subdomains(..).unwrap()
ReadSubdomains ==
    /\ pc = "start"
    /\ IF ~file.opens
       THEN pc' = "panic" /\ UNCHANGED pending_tasks
       ELSE pc' = "init_resolver" /\ pending_tasks' = ReadLines(file.lines)
    /\ UNCHANGED <<file, ns, qps, futures, completed, last_future_created,
                   future_creation_interval, k_left, wake_at, now, out,
                   notices, lookups,
                   response>>

\* lines 116-125: v.parse().expect("Invalid NS address"); args.ns is moved
\* into the resolver's configuration
InitResolver ==
    /\ pc = "init_resolver"
    /\ IF ns = "bogus"
       THEN pc' = "panic" /\ UNCHANGED ns
       ELSE pc' = "init_pacing" /\ ns' = "moved"
    /\ UNCHANGED <<file, qps, pending_tasks, futures, completed,
                   last_future_created, future_creation_interval, k_left,
                   wake_at, now, out, notices, lookups,
                   response>>

\* InitPacing with a division that yields zero for qps = 0
InitPacingNoPanic ==
    /\ pc = "init_pacing"
    /\ futures' = <<>>
    /\ completed' = 0
    /\ last_future_created' = now
    /\ pc' = "pace"
    /\ future_creation_interval' = IF qps = 0 THEN 0 ELSE TicksPerSec \div qps
    /\ UNCHANGED <<file, ns, qps, pending_tasks, k_left, wake_at, now, out,
                   notices, lookups, response>>

\* lines 127-130: the division panics when qps = 0
InitPacing ==
    /\ pc = "init_pacing"
    /\ futures' = <<>>
    /\ completed' = 0
    /\ last_future_created' = now
    /\ IF qps = 0
       THEN pc' = "panic" /\ UNCHANGED future_creation_interval
       ELSE pc' = "pace" /\ future_creation_interval' = Interval(qps)
    /\ UNCHANGED <<file, ns, qps, pending_tasks, k_left, wake_at, now, out,
                   notices, lookups,
                   response>>

\* Pace with the test of line 138 non-strict
PaceAtInterval ==
    /\ pc = "pace"
    /\ IF Elapsed >= future_creation_interval
       THEN pc' = "floor" /\ UNCHANGED k_left
       ELSE pc' = "for" /\ k_left' = Min(0, Len(pending_tasks))
    /\ UNCHANGED <<file, ns, qps, pending_tasks, futures, completed,
                   last_future_created, future_creation_interval, wake_at, now,
                   out, notices, lookups, response>>

\* line 138: the condition of the if; n_new_tasks = 0 when it is false
Pace ==
    /\ pc = "pace"
    /\ IF Elapsed > future_creation_interval
       THEN pc' = "floor" /\ UNCHANGED k_left
       ELSE pc' = "for" /\ k_left' = Min(0, Len(pending_tasks))
    /\ UNCHANGED <<file, ns, qps, pending_tasks, futures, completed,
                   last_future_created, future_creation_interval, wake_at, now,
                   out, notices, lookups,
                   response>>

\* lines 139-140 (a second reading of the clock), and the range of line 146
Floor ==
    /\ pc = "floor"
    /\ k_left' = Min(Allowance(Elapsed, future_creation_interval), Len(pending_tasks))
    /\ pc' = "for"
    /\ UNCHANGED <<file, ns, qps, pending_tasks, futures, completed,
                   last_future_created, future_creation_interval, wake_at, now,
                   out, notices, lookups,
                   response>>

\* Dispatch with the timestamp taken on every tick, dispatching or not
DispatchStampsAlways ==
    /\ pc = "for"
    /\ pending_tasks' = SubSeq(pending_tasks, 1, Len(pending_tasks) - k_left)
    /\ futures' = futures \o
           [j \in 1..k_left |->
               [task |-> pending_tasks[Len(pending_tasks) + 1 - j], st |-> "created"]]
    /\ last_future_created' = now
    /\ k_left' = 0
    /\ pc' = "select"
    /\ UNCHANGED <<file, ns, qps, completed, future_creation_interval, wake_at,
                   now, out, notices, lookups, response>>

\* Dispatch with the for loop stopping at two lookups in flight
DispatchCapped ==
    /\ pc = "for"
    /\ LET k == Min(k_left, IF Len(futures) >= 2 THEN 0 ELSE 2 - Len(futures)) IN
         /\ pending_tasks' = PopBack(pending_tasks, k)
         /\ futures' = futures \o [j \in 1..k |-> NewFuture(Popped(pending_tasks, k)[j])]
         /\ last_future_created' = IF k > 0 THEN now ELSE last_future_created
    /\ k_left' = 0
    /\ pc' = "select"
    /\ UNCHANGED <<file, ns, qps, completed, future_creation_interval, wake_at,
                   now, out, notices, lookups, response>>

\* lines 146-151: the for loop, k_left iterations
Dispatch ==
    /\ pc = "for"
    /\ pending_tasks' = PopBack(pending_tasks, k_left)
    /\ futures' = futures \o [j \in 1..k_left |-> NewFuture(Popped(pending_tasks, k_left)[j])]
    /\ last_future_created' = IF k_left > 0 THEN now ELSE last_future_created
    /\ k_left' = 0
    /\ pc' = "select"
    /\ UNCHANGED <<file, ns, qps, completed, future_creation_interval, wake_at,
                   now, out, notices, lookups,
                   response>>

\* line 154: nothing in flight
SkipSelect ==
    /\ pc = "select"
    /\ Len(futures) = 0
    /\ pc' = "sleep"
    /\ UNCHANGED <<file, ns, qps, pending_tasks, futures, completed,
                   last_future_created, future_creation_interval, k_left,
                   wake_at, now, out, notices, lookups,
                   response>>

\* Yield without the increment of line 156
YieldNoCount ==
    /\ pc = "select"
    /\ \E j \in 1..Len(futures), r \in Outcomes :
         /\ futures[j].st \in {"ready", "created"}
         /\ \A i \in 1..(j - 1) : futures[i].st # "ready"
         /\ out' = Append(out, resolve(futures[j].task, r))
         /\ response' = r
         /\ futures' = SwapRemove(Polled(futures, j - 1), j)
         /\ lookups' = [i \in 1..MaxLines |->
                           IF i \in Started(futures, j) THEN lookups[i] + 1
                           ELSE lookups[i]]
    /\ pc' = "sleep"
    /\ UNCHANGED <<file, ns, qps, pending_tasks, completed, last_future_created,
                   future_creation_interval, k_left, wake_at, now, notices>>

\* lines 155-158: select_all polls the futures in order and yields the first
\* that is ready: future j, whose lookup has answered or answers at its
\* first poll, with outcome r
Yield ==
    /\ pc = "select"
    /\ \E j \in 1..Len(futures), r \in Outcomes :
         /\ futures[j].st \in {"ready", "created"}
         /\ \A i \in 1..(j - 1) : futures[i].st # "ready"
         /\ LET result == resolve(futures[j].task, r) IN
              /\ completed' = completed + 1
              /\ out' = Append(out, result)
              /\ response' = r
              /\ futures' = SwapRemove(Polled(futures, j - 1), j)
              /\ lookups' = [i \in 1..MaxLines |->
                                IF i \in Started(futures, j) THEN lookups[i] + 1
                                ELSE lookups[i]]
    /\ pc' = "sleep"
    /\ UNCHANGED <<file, ns, qps, pending_tasks, last_future_created,
                   future_creation_interval, k_left, wake_at, now, notices>>

\* select_all returning at once when no future is ready (a poll, not a wait)
SuspendNoBlock ==
    /\ pc = "select"
    /\ Len(futures) > 0
    /\ \A i \in 1..Len(futures) : futures[i].st # "ready"
    /\ futures' = Polled(futures, Len(futures))
    /\ lookups' = [i \in 1..MaxLines |->
                      IF i \in Started(futures, Len(futures)) THEN lookups[i] + 1
                      ELSE lookups[i]]
    /\ pc' = "sleep"
    /\ UNCHANGED <<file, ns, qps, pending_tasks, completed,
                   last_future_created, future_creation_interval, k_left,
                   wake_at, now, out, notices, response>>

\* line 155: every future polled is pending, select_all is suspended
Suspend ==
    /\ pc = "select"
    /\ Len(futures) > 0
    /\ \A i \in 1..Len(futures) : futures[i].st # "ready"
    /\ futures' = Polled(futures, Len(futures))
    /\ lookups' = [i \in 1..MaxLines |->
                      IF i \in Started(futures, Len(futures)) THEN lookups[i] + 1
                      ELSE lookups[i]]
    /\ pc' = "wait"
    /\ UNCHANGED <<file, ns, qps, pending_tasks, completed,
                   last_future_created, future_creation_interval, k_left,
                   wake_at, now, out, notices,
                   response>>

\* the waker of an answered lookup: select_all is polled again
Wake ==
    /\ pc = "wait"
    /\ \E i \in 1..Len(futures) : futures[i].st = "ready"
    /\ pc' = "select"
    /\ UNCHANGED <<file, ns, qps, pending_tasks, futures, completed,
                   last_future_created, future_creation_interval, k_left,
                   wake_at, now, out, notices, lookups,
                   response>>

\* the resolver answers an outstanding lookup (or gives up on it)
Respond ==
    /\ \E i \in 1..Len(futures) :
         /\ futures[i].st = "awaiting"
         /\ futures' = [futures EXCEPT ![i].st = "ready"]
    /\ UNCHANGED <<pc, file, ns, qps, pending_tasks, completed,
                   last_future_created, future_creation_interval, k_left,
                   wake_at, now, out, notices, lookups,
                   response>>

\* lines 162-163: sleep(20 ms) starts (the result of line 155 is out of scope)
Sleep ==
    /\ pc = "sleep"
    /\ Len(futures) = 0
    /\ wake_at' = now + SleepTicks
    /\ pc' = "sleeping"
    /\ response' = "none"
    /\ UNCHANGED <<file, ns, qps, pending_tasks, futures, completed,
                   last_future_created, future_creation_interval, k_left, now,
                   out, notices, lookups>>

\* line 162: something is in flight, no sleep (the result of line 155 is
\* out of scope)
NoSleep ==
    /\ pc = "sleep"
    /\ Len(futures) > 0
    /\ pc' = "check"
    /\ response' = "none"
    /\ UNCHANGED <<file, ns, qps, pending_tasks, futures, completed,
                   last_future_created, future_creation_interval, k_left,
                   wake_at, now, out, notices, lookups>>

\* line 163: the sleep is over
SleepDone ==
    /\ pc = "sleeping"
    /\ now >= wake_at
    /\ wake_at' = 0
    /\ pc' = "check"
    /\ UNCHANGED <<file, ns, qps, pending_tasks, futures, completed,
                   last_future_created, future_creation_interval, k_left, now,
                   out, notices, lookups,
                   response>>

\* Completed with the queue left out of the test of line 177
CompletedEarly ==
    /\ pc = "check"
    /\ Len(futures) = 0
    /\ notices' = notices + 1
    /\ pc' = "done"
    /\ UNCHANGED <<file, ns, qps, pending_tasks, futures, completed,
                   last_future_created, future_creation_interval, k_left,
                   wake_at, now, out, lookups, response>>

\* lines 177-180: everything is done
Completed ==
    /\ pc = "check"
    /\ Len(futures) = 0 /\ Len(pending_tasks) = 0
    /\ notices' = notices + 1
    /\ pc' = "done"
    /\ UNCHANGED <<file, ns, qps, pending_tasks, futures, completed,
                   last_future_created, future_creation_interval, k_left,
                   wake_at, now, out, lookups,
                   response>>

\* line 177 is false: next iteration of the loop
Continue ==
    /\ pc = "check"
    /\ ~(Len(futures) = 0 /\ Len(pending_tasks) = 0)
    /\ pc' = "pace"
    /\ UNCHANGED <<file, ns, qps, pending_tasks, futures, completed,
                   last_future_created, future_creation_interval, k_left,
                   wake_at, now, out, notices, lookups,
                   response>>

\* the monotonic clock advances by one tick
Advance ==
    /\ pc \in LoopPcs
    /\ now < MaxTime
    /\ now' = now + 1
    /\ UNCHANGED <<pc, file, ns, qps, pending_tasks, futures, completed,
                   last_future_created, future_creation_interval, k_left,
                   wake_at, out, notices, lookups,
                   response>>

Startup == ReadSubdomains \/ InitResolver \/ InitPacing
Tick == Pace \/ Floor \/ Dispatch \/ SkipSelect
Select == Yield \/ Suspend \/ Wake
Rest == Sleep \/ NoSleep \/ SleepDone \/ Completed \/ Continue
Main == Startup \/ Tick \/ Select \/ Rest

Next == Main \/ Respond \/ Advance

Spec == Init /\ [][Next]_vars

\* ------------------------------------------------------------- fairness
\* Under FairSpec the clock never stops: past FairHorizon the origin of the
\* clock moves instead of `now`, which keeps every difference the program
\* computes (elapsed > interval, floor(elapsed / interval) against the queue
\* length, now >= wake_at) as it is with an unbounded clock.
FairHorizon == MaxLines * TicksPerSec + SleepTicks + 1

AdvanceWindow ==
    /\ pc \in LoopPcs
    /\ IF now < FairHorizon
       THEN now' = now + 1 /\ UNCHANGED <<last_future_created, wake_at>>
       ELSE /\ last_future_created > 0 \/ wake_at > 0
            /\ last_future_created' = IF last_future_created > 0
                                      THEN last_future_created - 1 ELSE 0
            /\ wake_at' = IF wake_at > 0 THEN wake_at - 1 ELSE 0
            /\ now' = now
    /\ UNCHANGED <<pc, file, ns, qps, pending_tasks, futures, completed,
                   future_creation_interval, k_left, out, notices, lookups,
                   response>>

NextFair == Main \/ Respond \/ AdvanceWindow

\* main keeps running, every lookup is answered in the end (the resolver's
\* own timeout), time passes
FairSpec ==
    /\ Init
    /\ [][NextFair]_vars
    /\ WF_vars(Main)
    /\ WF_vars(Respond)
    /\ WF_vars(AdvanceWindow)

\* --------------------------------------------------------------- history
\* the tasks read_subdomains built from the input
InputTasks == IF file.opens THEN ReadLines(file.lines) ELSE <<>>

\* inside the loop or after it
Scheduling == pc \in LoopPcs \cup {"done"}

\* number of tasks taken out of the Task Queue so far
Dispatched == Len(InputTasks) - Len(pending_tasks)

Ids(ts) == {ts[i].id : i \in 1..Len(ts)}
InFlightTasks(fs) == {fs[i].task : i \in 1..Len(fs)}
InFlightIds(fs) == {fs[i].task.id : i \in 1..Len(fs)}

\* ---------------------------------------------------------------- claims

\* C1: every task read from the input is emitted exactly once: no two
\* output lines are for the same task, every line is for a task of the
\* input with that task's label, and when the loop has terminated the
\* number of output lines is the number of input tasks.
EmittedExactlyOnce ==
    /\ \A i, j \in 1..Len(out) : out[i].id = out[j].id => i = j
    /\ \A i \in 1..Len(out) :
         /\ out[i].id \in 1..Len(InputTasks)
         /\ out[i].subdomain = InputTasks[out[i].id].subdomain
    /\ pc = "done" => Len(out) = Len(InputTasks)

\* C1 witness: a run of MaxLines tasks has terminated, all of them dispatched
\* at the first instant pacing allowed any dispatch (a burst).
EmittedAllAfterBurst ==
    /\ pc = "done"
    /\ Len(out) = MaxLines
    /\ future_creation_interval = 0
    /\ last_future_created = 1

\* C2: with a valid configuration, once the loop is entered it reaches the
\* exit with the Task Queue and the In-Flight Set both empty.
LoopTerminates ==
    (pc = "pace") ~> (pc = "done" /\ pending_tasks = <<>> /\ futures = <<>>)

\* C2 witness: the loop has exited after MaxLines tasks with qps = 1.
TerminatedSlowRun == pc = "done" /\ Len(out) = MaxLines /\ qps = 1

StatusFollowsOutcome ==
    response # "none" =>
        LET line == out[Len(out)] IN
        /\ pc = "sleep" /\ out # <<>>
        /\ response \in Outcomes
        /\ response = "Ok" => line.status = Resolved
        /\ response = "ErrTimeout" => line.status = Timeout
        /\ response = "ErrNoRecordsFound" => line.status = CantResolve
        /\ response \notin {"Ok", "ErrTimeout", "ErrNoRecordsFound"} =>
               line.status = CantResolve
        /\ line.subdomain = InputTasks[line.id].subdomain

\* C4 witness: a lookup of the empty label failed with an error of another
\* kind and was emitted.
OtherErrorEmitted ==
    /\ pc = "sleep"
    /\ out # <<>>
    /\ response = "ErrIo"
    /\ out[Len(out)].subdomain = ""
    /\ out[Len(out)].status = CantResolve

\* C5 as stated: every output line carries a terminal status, and no task
\* outside the Task Queue holds status Pending.
PendingOnlyInQueue ==
    /\ \A i \in 1..Len(out) : out[i].status \in Terminal
    /\ \A i \in 1..Len(futures) : futures[i].task.status # Pending

\* C5 amended: every output line carries a terminal status, and the tasks
\* that hold status Pending are those of the Task Queue and those of the
\* In-Flight Set.
PendingUntilCompleted ==
    /\ \A i \in 1..Len(out) : out[i].status \in Terminal
    /\ \A i \in 1..Len(pending_tasks) : pending_tasks[i].status = Pending
    /\ \A i \in 1..Len(futures) : futures[i].task.status = Pending

\* C5 witness: one task emitted, one in flight, one in the queue.
OneOfEachStage ==
    Len(out) = 1 /\ Len(futures) = 1 /\ Len(pending_tasks) = 1

CompletedNoticeInv ==
    /\ notices <= 1
    /\ pc = "done" <=> notices = 1
    /\ notices = 1 =>
         /\ Len(out) = Len(InputTasks)
         /\ pending_tasks = <<>>
         /\ futures = <<>>

\* C6: "Completed" is written once, when every task's line has been written
\* and the Task Queue and the In-Flight Set are empty; after it no line is
\* written and the loop takes no step.
CompletedNoticeLast ==
    /\ []CompletedNoticeInv
    /\ [][notices = 1 => (out' = out /\ notices' = 1 /\ pc' = "done"
                          /\ pending_tasks' = pending_tasks
                          /\ futures' = futures)]_vars

\* C6 witness: the notice is out after MaxLines result lines.
NoticeAfterAllLines == notices = 1 /\ Len(out) = MaxLines /\ pc = "done"

\* C7: lookup_ip is called at most once per task, exactly once for each
\* task by the time the loop exits, and a task that was emitted (with
\* Timeout or CantResolve in particular) is neither in the Task Queue nor in
\* the In-Flight Set; no task is in both or twice in the In-Flight Set.
AttemptedOnce ==
    /\ \A i \in 1..MaxLines : lookups[i] <= 1
    /\ pc = "done" => \A i \in 1..Len(InputTasks) : lookups[i] = 1
    /\ \A i \in 1..Len(out) :
         out[i].id \notin Ids(pending_tasks) \cup InFlightIds(futures)
    /\ Ids(pending_tasks) \cap InFlightIds(futures) = {}
    /\ Cardinality(InFlightIds(futures)) = Len(futures)

\* C7 witness: the run is over with a Timeout line and a CantResolve line.
FailuresNotRetried ==
    /\ pc = "done"
    /\ \E i, j \in 1..Len(out) :
         out[i].status = Timeout /\ out[j].status = CantResolve

\* C8: with qps = 0 or an invalid name-server address the process never
\* enters the loop, starts no lookup and emits no line.
ConfigErrorFatal ==
    (qps = 0 \/ ns = "bogus") =>
        /\ pc \in {"start", "init_resolver", "init_pacing", "panic"}
        /\ pc = "init_pacing" => ns # "bogus"
        /\ futures = <<>>
        /\ out = <<>>
        /\ \A i \in 1..MaxLines : lookups[i] = 0
        /\ notices = 0

\* C8 witness: qps = 0 has aborted a process that had read MaxLines tasks
\* and built its resolver.
AbortedOnZeroQps ==
    pc = "panic" /\ qps = 0 /\ ns = "moved" /\ Len(pending_tasks) = MaxLines

\* C9 as stated: when the file cannot be opened or a line of it cannot be
\* read, no task is dispatched and no result line is emitted.
ReadFailureFatal ==
    (~file.opens \/ \E i \in 1..Len(file.lines) : file.lines[i] = BadLine) =>
        /\ futures = <<>>
        /\ out = <<>>
        /\ \A i \in 1..MaxLines : lookups[i] = 0

\* C10: a step that emits a result line removes the future of that line's
\* task from the In-Flight Set and nothing else: the set is one smaller,
\* the tasks of the other futures are all there, once each, and the Task
\* Queue and the pacing timestamp are as before.
YieldFrame ==
    [][Len(out') = Len(out) + 1 =>
         LET line == out'[Len(out')] IN
         /\ Len(futures) >= 1
         /\ Len(futures') = Len(futures) - 1
         /\ line.id \in InFlightIds(futures)
         /\ InFlightTasks(futures') =
                {t \in InFlightTasks(futures) : t.id # line.id}
         /\ Cardinality(InFlightTasks(futures')) = Len(futures')
         /\ pending_tasks' = pending_tasks
         /\ last_future_created' = last_future_created]_vars

\* C10 witness: a result has just been yielded and two lookups are still
\* outstanding.
YieldedWithTwoLeft == pc = "sleep" /\ Len(out) >= 1 /\ Len(futures) = 2

\* the allowance of the pacing rule for one reading of the elapsed time
\* (a zero interval allows the whole queue)
AllowedAt(elapsed, interval) ==
    IF elapsed > interval
    THEN (IF interval > 0 THEN elapsed \div interval ELSE USIZE_MAX)
    ELSE 0

\* C11: on every tick the number of tasks moved from the Task Queue to the
\* In-Flight Set is k = min(allowed, |Task Queue|), allowed being
\* floor(elapsed / interval) when elapsed > interval and 0 otherwise, for
\* the elapsed time the tick reads: the test of the tick sends it to the
\* floor exactly when elapsed > interval (nothing is dispatched at
\* elapsed = interval), the floor yields at least one task when the queue
\* is not empty, the for loop moves k tasks, and no other step moves any.
DispatchesAllowance ==
    [][/\ (pc = "pace" /\ pc' # "pace") =>
            IF Elapsed > future_creation_interval
            THEN pc' = "floor"
            ELSE pc' = "for" /\ k_left' = 0 /\ AllowedAt(Elapsed, future_creation_interval) = 0
       /\ (pc = "floor" /\ pc' # "floor") =>
            /\ pc' = "for"
            /\ k_left' = Min(AllowedAt(Elapsed, future_creation_interval),
                             Len(pending_tasks))
            /\ pending_tasks # <<>> => k_left' >= 1
       /\ (pc = "for" /\ pc' # "for") =>
            /\ Len(pending_tasks') = Len(pending_tasks) - k_left
            /\ Len(futures') = Len(futures) + k_left
       /\ (pc \in {"floor", "for"} /\ pc' = pc) => k_left' = k_left
       /\ (pc \in LoopPcs \ {"for"}) =>
            /\ pending_tasks' = pending_tasks
            /\ Len(futures') <= Len(futures)]_vars

\* C11 witness: a tick has just dispatched two tasks of three, the floor of
\* an elapsed time of at least two positive intervals.
DispatchedTwoOfThree ==
    /\ pc = "select"
    /\ future_creation_interval > 0
    /\ Len(pending_tasks) = 1 /\ Len(futures) = 2
    /\ futures[1].st = "created" /\ futures[2].st = "created"
    /\ last_future_created = now
    /\ now \div future_creation_interval = 2

\* C12: the pacing timestamp changes only in a for loop that dispatches at
\* least one task, and is then the current time; a tick with k = 0, a
\* completion, an idle sleep and the passing of time leave it unchanged.
TimestampOnlyOnDispatch ==
    [][/\ last_future_created' # last_future_created =>
            /\ pc = "for" /\ k_left > 0
            /\ Len(pending_tasks') < Len(pending_tasks)
            /\ last_future_created' = now /\ now' = now
       /\ (pc \in LoopPcs /\ Len(pending_tasks') < Len(pending_tasks)) =>
            last_future_created' = now /\ now' = now
       /\ (pc = "for" /\ pc' # "for" /\ k_left = 0) =>
            last_future_created' = last_future_created
       /\ (Len(out') # Len(out) \/ pc \in {"sleep", "sleeping"}) =>
            last_future_created' = last_future_created]_vars

\* C12 witness: a task was dispatched, its completion consumed and an idle
\* sleep taken, with the queue not yet empty; the timestamp is still the
\* time of the dispatch.
TimestampKeptOverSleep ==
    /\ pc = "check"
    /\ futures = <<>> /\ Len(out) = 1 /\ pending_tasks # <<>>
    /\ 0 < last_future_created /\ last_future_created < now

\* C13: after startup the Task Queue only loses tasks from its tail and
\* never grows; once it is empty it stays empty and no task enters the
\* In-Flight Set any more (Draining); the loop exits only from the test of
\* a tick that finds the queue and the In-Flight Set both empty, and after
\* the exit nothing runs.
QueueOnlyShrinks ==
    [][/\ pc # "start" =>
            /\ Len(pending_tasks') <= Len(pending_tasks)
            /\ pending_tasks' = SubSeq(pending_tasks, 1, Len(pending_tasks'))
       /\ (pc \in LoopPcs /\ pending_tasks = <<>>) =>
            /\ pending_tasks' = <<>>
            /\ Len(futures') <= Len(futures)
            /\ InFlightIds(futures') \subseteq InFlightIds(futures)
       /\ (pc # "done" /\ pc' = "done") =>
            pc = "check" /\ pending_tasks = <<>> /\ futures = <<>>
       /\ pc = "done" => pc' = "done"]_vars

\* C13 witness: Draining: the queue of a MaxLines-task input is empty, a
\* result is out and the loop waits for what is still in flight.
DrainingInFlight ==
    /\ pc = "wait"
    /\ Len(InputTasks) = MaxLines
    /\ pending_tasks = <<>> /\ Len(futures) >= 1 /\ Len(out) >= 1

\* C14 as stated, for a non-empty input: when the loop reaches the sleep of
\* line 163 no completion was consumed on that tick, and the loop never
\* sleeps while the Task Queue is empty.
IdleSleepOnlyWaitingForPacing ==
    InputTasks # <<>> =>
        /\ (pc = "sleep" /\ futures = <<>>) =>
               response = "none" /\ pending_tasks # <<>>
        /\ pc = "sleeping" => pending_tasks # <<>>

\* C15 as stated: the loop is never held in select_all, with no lookup
\* answered, while the Task Queue is not empty and the pacing allowance is
\* at least 1.
DispatchNeverWaitsOnLookup ==
    ~(/\ pc = "wait"
      /\ \A i \in 1..Len(futures) : futures[i].st # "ready"
      /\ pending_tasks # <<>>
      /\ future_creation_interval > 0
      /\ AllowedAt(Elapsed, future_creation_interval) >= 1)

\* C15 amended: the In-Flight Set has no cap, but dispatch is throttled by
\* pacing and by the completion wait: a tick that has lookups in flight
\* after its for loop goes on (to the next tick and its dispatch) only with
\* a completion consumed, the wait of select_all ends only on an answered
\* lookup, and nothing is dispatched during it.
DispatchWaitsForCompletion ==
    /\ [](pc = "sleep" => (response # "none" \/ futures = <<>>))
    /\ [](pc = "wait" => futures # <<>>)
    /\ [][pc = "wait" =>
            /\ pending_tasks' = pending_tasks
            /\ pc' # "wait" => \E i \in 1..Len(futures) : futures[i].st = "ready"]_vars

\* C15 witness: two tasks are queued and pacing allows a dispatch, but the
\* loop is held by the one lookup in flight, unanswered.
HeldByLookup ==
    /\ pc = "wait"
    /\ Len(pending_tasks) = 2 /\ Len(futures) = 1
    /\ futures[1].st = "awaiting"
    /\ future_creation_interval > 0
    /\ AllowedAt(Elapsed, future_creation_interval) >= 1

\* C16: tasks leave the Task Queue from its tail: the queue is always the
\* first lines of the input, in input order, and every for loop appends to
\* the In-Flight Set the futures of the last tasks of the queue, the last
\* one first; so the order of dispatch over the run is the reverse of the
\* input order, within a burst and across ticks.
DispatchedLastFirst ==
    /\ [](Scheduling =>
            pending_tasks = SubSeq(InputTasks, 1, Len(pending_tasks)))
    /\ [][(pc = "for" /\ pc' # "for") =>
            LET n == Len(pending_tasks)
                k == n - Len(pending_tasks')
            IN  /\ k >= 0
                /\ futures' = futures \o
                       [j \in 1..k |->
                           [task |-> InputTasks[n + 1 - j], st |-> "created"]]]_vars

\* C16 witness: a first tick dispatched the last line alone, and a later
\* tick has just dispatched the two lines before it in a burst, the second
\* line before the first.
LastThenBurstReversed ==
    /\ pc = "select"
    /\ Len(InputTasks) = 3 /\ pending_tasks = <<>>
    /\ Len(out) = 1 /\ out[1].id = 3
    /\ Len(futures) = 2
    /\ futures[1].task.id = 2 /\ futures[2].task.id = 1
    /\ futures[1].st = "created" /\ futures[2].st = "created"

\* C17: nothing but the input size caps the In-Flight Set: a for loop adds
\* the whole allowance of its tick (clamped to the queue) whatever is in
\* flight already, any other step removes at most one future and adds none,
\* and the size never exceeds the number N of input tasks (the witness
\* reaches N).
InFlightUncapped ==
    /\ [](Scheduling => Len(futures) <= Len(InputTasks))
    /\ [][/\ (pc = "for" /\ pc' # "for") =>
                Len(futures') = Len(futures) + Min(k_left, Len(pending_tasks))
          /\ (pc # "for") =>
                Len(futures') \in {Len(futures), Len(futures) - 1}]_vars

\* C17 witness: with a positive interval, all MaxLines tasks of the input
\* are in flight at once, their lookups started and unanswered.
AllInFlight ==
    /\ pc = "wait"
    /\ future_creation_interval > 0
    /\ Len(InputTasks) = MaxLines
    /\ Len(futures) = MaxLines
    /\ \A i \in 1..Len(futures) : futures[i].st = "awaiting"

\* C18: at the end of every iteration of the loop (at the exit test and
\* after the exit) the sizes of the Task Queue and of the In-Flight Set and
\* the completed counter add up to the number N of input tasks, and the
\* counter is the number of result lines written; at termination the
\* counter is N.
TasksConserved ==
    pc \in {"check", "done"} =>
        /\ Len(pending_tasks) + Len(futures) + completed = Len(InputTasks)
        /\ completed = Len(out)
        /\ pc = "done" => completed = Len(InputTasks)

\* C18 witness: an iteration ends with one task in each of the three
\* places.
IterationEndsOneEach ==
    /\ pc = "check"
    /\ Len(pending_tasks) = 1 /\ Len(futures) = 1 /\ completed = 1

\* C19 as stated, with interval = 1/qps exactly (TicksPerSec / qps ticks):
\* the number of tasks dispatched by time t is at most floor(t / interval),
\* that is floor(t * qps / TicksPerSec), and no task is dispatched before
\* more than one such interval has passed since the start of the clock.
DispatchedAtMostRate ==
    (Scheduling /\ qps > 0) =>
        /\ Dispatched <= (now * qps) \div TicksPerSec
        /\ Dispatched > 0 => now * qps > TicksPerSec

====
